---------------------------- MODULE Spec2Model ----------------------------
(***************************************************************************)
(* The filesystem-synchronised, cached TF-IDF search index of the          *)
(* repository (src/sem7/lab1/search_engine.py), driven as the desktop      *)
(* application drives it (src/sem2/lab1/main.py).                          *)
(*                                                                         *)
(* Texts are sequences of words.  The weights are fixed-point integers:    *)
(* idf is scaled by 10, and a score is the square of the cosine in units   *)
(* of 1/10000 (squaring is monotone on the non-negative cosines the        *)
(* non-negative weights produce, so order and threshold are preserved).    *)
(***************************************************************************)
EXTENDS Integers, Sequences, FiniteSets, TLC

(***************************************************************************)
(* Bounds of the model.                                                    *)
(***************************************************************************)
\* number of filesystem mutations (writes, deletions, chmods, root removal,
\* cache tampering) in one behaviour
MaxFsOps == 2

\* number of events the observer reports in one behaviour of the signalling
MaxEvents == 3

\* filesystem events the handlers are shown
MaxHandled == 2

\* length of the raw texts _generate_snippet is called on
MaxTextLen == 4

(***************************************************************************)
(* The corpus tree: paths, file contents, queries.                         *)
(***************************************************************************)
PA == [dir |-> "corpus_root", name |-> "a", ext |-> ".txt"]
PB == [dir |-> "corpus_root/sub", name |-> "a", ext |-> ".txt"]
PN == [dir |-> "corpus_root", name |-> "n", ext |-> ".md"]

Paths == {PA, PB, PN}

\* position of a path in Python's string order:
\* corpus_root/a.txt < corpus_root/n.md < corpus_root/sub/a.txt
PathRank(p) ==
    IF p = PA THEN 1 ELSE IF p = PN THEN 2 ELSE 3

\* filename.endswith(".txt")
EndsWithTxt(p) == p.ext = ".txt"

\* os.path.basename(path)
Basename(p) == <<p.name, p.ext>>

\* file contents the environment writes
Texts == { <<"the">>, <<"the", "cat">>, <<"cats", "dog", "dog">> }

\* what the environment writes to a path: the content of a file that does
\* not match the extension filter is never read
TextsFor(p) == IF p.ext = ".txt" THEN Texts ELSE {<<"the">>}

\* queries the user types
Queries == { <<"cats">>, <<"dog">>, <<"the", "zebra">> }

\* top_n arguments of search; 20 is the default
TopNs == {1, 20}

NoFile == [exists |-> FALSE, readable |-> FALSE, text |-> << >>]

FileStates ==
    {NoFile} \cup [exists : {TRUE}, readable : BOOLEAN, text : Texts]

(***************************************************************************)
(* Sequence helpers.                                                       *)
(***************************************************************************)
Range(f) == {f[x] : x \in DOMAIN f}

RECURSIVE SumOver(_, _)
SumOver(S, f) ==
    IF S = {} THEN 0
    ELSE LET x == CHOOSE y \in S : TRUE IN f[x] + SumOver(S \ {x}, f)

\* number of occurrences of w in the sequence s
Count(s, w) == Cardinality({i \in DOMAIN s : s[i] = w})

(***************************************************************************)
(* Text normalisation (spaCy: lower-case, lemmatise, drop stop words).     *)
(***************************************************************************)
StopWords == {"the"}

Lemma(w) ==
    IF w = "cats" THEN "cat" ELSE IF w = "dogs" THEN "dog" ELSE w

\* preprocess_text_content: the lemmas of the tokens that are not stop words
preprocess_text_content(text) ==
    LET kept == SelectSeq(text, LAMBDA w : w \notin StopWords)
    IN  [i \in 1..Len(kept) |-> Lemma(kept[i])]

(***************************************************************************)
(* Content digest.  SHA-256 is modelled by an injective positional code of *)
(* the content; None (an unreadable file) is 0, which no content encodes.  *)
(***************************************************************************)
WordCode(w) ==
    IF w = "the" THEN 1 ELSE IF w = "cat" THEN 2 ELSE IF w = "cats" THEN 3
    ELSE IF w = "dog" THEN 4 ELSE IF w = "dogs" THEN 5 ELSE IF w = "sun" THEN 6
    ELSE 7

RECURSIVE Sha256(_)
Sha256(text) ==
    IF text = << >> THEN 1
    ELSE Sha256(SubSeq(text, 1, Len(text) - 1)) * 8 + WordCode(text[Len(text)])

None == 0

\* _get_file_hash: the digest, or None when the file cannot be opened
get_file_hash(files, p) ==
    IF files[p].exists /\ files[p].readable THEN Sha256(files[p].text) ELSE None


(***************************************************************************)
(* TfidfVectorizer (scikit-learn defaults: raw term counts, smoothed idf   *)
(* ln((1+n)/(1+df)) + 1, rows compared by cosine).  All words of the       *)
(* model have two or more characters, so token_pattern keeps every token.  *)
(***************************************************************************)
\* 10 * (ln((1+n)/(1+df)) + 1), rounded, for the corpus sizes of the model
Idf10(n, df) ==
    IF df >= n THEN 10
    ELSE IF n = 2 THEN 14
    ELSE IF n = 3 /\ df = 1 THEN 17
    ELSE IF n = 3 /\ df = 2 THEN 13
    ELSE 10

\* preprocess_filepath: the normalised content of the file (the caller has
\* checked that it can be opened)
preprocess_filepath(files, p) == preprocess_text_content(files[p].text)

\* TfidfVectorizer(preprocessor=preprocess_filepath), not yet fitted
NewVectorizer == [vocabulary |-> {}, idf |-> << >>, tfidfFitted |-> FALSE]

\* vectorizer.fit_transform(all_filepaths) over the sorted path list:
\* raises OSError when a listed file cannot be opened and ValueError
\* ("empty vocabulary") when no document yields a token
fit_transform(files, all_filepaths) ==
    LET n      == Len(all_filepaths)
        canOpen(p) == files[p].exists /\ files[p].readable
        docs   == [i \in 1..n |-> preprocess_filepath(files, all_filepaths[i])]
        vocab  == UNION {Range(docs[i]) : i \in 1..n}
        df(t)  == Cardinality({i \in 1..n : t \in Range(docs[i])})
        idf    == [t \in vocab |-> Idf10(n, df(t))]
    IN  IF \E i \in 1..n : ~canOpen(all_filepaths[i])
        THEN [raised |-> "OSError", vocabulary |-> {}, idf |-> << >>,
              rows |-> << >>]
        ELSE IF vocab = {}
        THEN [raised |-> "ValueError", vocabulary |-> {}, idf |-> << >>,
              rows |-> << >>]
        ELSE [raised |-> "none", vocabulary |-> vocab, idf |-> idf,
              rows |-> [i \in 0..(n - 1) |->
                          [t \in vocab |-> Count(docs[i + 1], t) * idf[t]]]]

\* a projection that gives every vocabulary term its idf, whatever the query
transformAllTerms(vectorizer, tokens) ==
    [t \in vectorizer.vocabulary |-> vectorizer.idf[t]]

\* vectorizer.transform([processed_query]) with the identity preprocessor:
\* terms outside the fitted vocabulary are ignored
transform(vectorizer, tokens) ==
    [t \in vectorizer.vocabulary |-> Count(tokens, t) * vectorizer.idf[t]]

Dot(u, v) == SumOver(DOMAIN u, [t \in DOMAIN u |-> u[t] * v[t]])

\* floor(10000 * num / den) by long division (num <= den)
Frac4(num, den) ==
    LET a  == num \div den
        b  == num % den
        d1 == (b * 100) \div den
        r1 == (b * 100) % den
        d2 == (r1 * 100) \div den
    IN  a * 10000 + d1 * 100 + d2

\* cosine_similarity(query_vector, tfidf_matrix).flatten(): per row the
\* squared cosine as the fraction num/den (0 when a norm is 0) and as the
\* fixed-point score
cosine_similarity(qv, rows) ==
    LET q  == qv
        qq == Dot(q, q)
    IN  [i \in DOMAIN rows |->
            LET d   == rows[i]
                dot == Dot(q, d)
                den == qq * Dot(d, d)
            IN  [num   |-> IF den = 0 THEN 0 ELSE dot * dot,
                 den   |-> IF den = 0 THEN 1 ELSE den,
                 score |-> IF den = 0 THEN 0 ELSE Frac4(dot * dot, den)]]

\* score > 0.01, on the squared cosine: num/den > 1/10000
AboveThreshold(sim) == sim.num > sim.den \div 10000

\* the permutations of the row indices 0..n-1, as sequences
RowOrders(n) ==
    {s \in [1..n -> 0..(n - 1)] : \A i, j \in 1..n : i # j => s[i] # s[j]}

\* cosine_similarities.argsort(): the rows in ascending order of score; the
\* default sort is not stable, so the order among equal scores is open
argsort(sims) ==
    LET v == sims
        n == Cardinality(DOMAIN v)
    IN  {s \in RowOrders(n) :
            \A i, j \in 1..n : i < j => v[s[i]].score <= v[s[j]].score}

\* the slice without its reversal: the first top_n rows of the ascending
\* order
ForwardSlice(order, top_n) ==
    LET n     == Len(order)
        count == IF top_n < n THEN top_n ELSE n
    IN  [k \in 1..count |-> order[k]]

\* order[:-top_n - 1:-1] : Python's slice with step -1, from the last element
\* down to (excluding) position -top_n - 1
ReverseSlice(order, top_n) ==
    LET n     == Len(order)
        raw   == -top_n - 1
        stop0 == IF raw < 0 THEN raw + n ELSE raw
        stop  == IF stop0 < 0 THEN -1 ELSE IF stop0 >= n THEN n - 1 ELSE stop0
        count == (n - 1) - stop
    IN  [k \in 1..count |-> order[n - k + 1]]

(***************************************************************************)
(* The engine (VectorSearchEngine) as a record of its fields.              *)
(***************************************************************************)
\* tfidf_matrix = None
NoMatrix == [present |-> FALSE, rows |-> << >>]

\* VectorSearchEngine.__init__
NewEngine ==
    [vectorizer      |-> NewVectorizer,
     tfidf_matrix    |-> NoMatrix,
     idx_to_filepath |-> << >>,
     file_hashes     |-> << >>,
     file_metadata   |-> << >>]

\* sorted(list(paths))
sorted(S) ==
    CHOOSE s \in [1..Cardinality(S) -> S] :
        \A i, j \in 1..Cardinality(S) : i < j => PathRank(s[i]) < PathRank(s[j])

\* a test that sees new paths only and misses modified content
HashDiffersNewOnly(hashes, p, new_hash) == p \notin DOMAIN hashes

\* a test that takes every hashed file for a changed one
HashDiffersAlways(hashes, p, new_hash) == TRUE

\* the test of the walk loop: the path has no recorded digest, or a
\* different one
HashDiffers(hashes, p, new_hash) ==
    p \notin DOMAIN hashes \/ hashes[p] # new_hash

\* the os.walk loop of sync_index_with_filesystem: the matching files found
\* (a missing root yields nothing, os.walk swallows the error)
current_files(files, root) ==
    IF root THEN {p \in Paths : files[p].exists /\ EndsWithTxt(p)} ELSE {}

\* sync_index_with_filesystem.  `files` is the tree during the walk,
\* `filesAtRebuild` the tree when fit_transform reads the files, `resets`
\* whether fit_transform discards the fitted idf before it reads them.
\* Yields the engine after the call, the return value and the exception.
sync_index_with_filesystem(eng, files, root, filesAtRebuild, resets) ==
    LET walked   == current_files(files, root)
        detected == {p \in walked :
                        /\ get_file_hash(files, p) # None
                        /\ HashDiffers(eng.file_hashes, p, get_file_hash(files, p))}
        hashes1  == [p \in (DOMAIN eng.file_hashes) \cup detected |->
                        IF p \in detected THEN get_file_hash(files, p)
                        ELSE eng.file_hashes[p]]
        deleted_files == (DOMAIN hashes1) \ walked
        hashes2  == [p \in (DOMAIN hashes1) \ deleted_files |-> hashes1[p]]
        changed  == detected # {} \/ deleted_files # {}
        all_filepaths == sorted(DOMAIN hashes2)
        n        == Len(all_filepaths)
        fit      == fit_transform(filesAtRebuild, all_filepaths)
    IN  IF ~changed
        THEN [engine |-> eng, changed |-> FALSE, raised |-> "none"]
        ELSE IF n = 0
        THEN [engine  |-> [eng EXCEPT !.file_hashes = hashes2,
                                      !.tfidf_matrix = NoMatrix,
                                      !.idx_to_filepath = << >>,
                                      !.file_metadata = << >>],
              changed |-> TRUE, raised |-> "none"]
        ELSE IF fit.raised # "none"
        THEN [engine  |-> [eng EXCEPT !.file_hashes = hashes2,
                                      !.vectorizer.tfidfFitted =
                                          IF resets THEN FALSE ELSE @],
              changed |-> TRUE, raised |-> fit.raised]
        ELSE [engine  |-> [vectorizer |-> [vocabulary |-> fit.vocabulary,
                                           idf |-> fit.idf,
                                           tfidfFitted |-> TRUE],
                           tfidf_matrix |-> [present |-> TRUE, rows |-> fit.rows],
                           idx_to_filepath |->
                               [i \in 0..(n - 1) |-> all_filepaths[i + 1]],
                           file_hashes |-> hashes2,
                           file_metadata |->
                               [p \in DOMAIN hashes2 |-> Basename(p)]],
              changed |-> TRUE, raised |-> "none"]

(***************************************************************************)
(* search.                                                                 *)
(***************************************************************************)
Placeholder == <<"[Could not read file content for snippet]">>

\* _generate_snippet on a text shorter than half the window (every text of
\* the model is): the excerpt is the whole text, with or without a match
generate_snippet(text, query_words) == text

\* the loop over related_docs_indices: one hit per kept row, in the order
\* of the slice
Hits(eng, files, sims, kept, query_words) ==
        [k \in 1..Len(kept) |->
            LET filepath == eng.idx_to_filepath[kept[k]]
            IN  [title   |-> IF filepath \in DOMAIN eng.file_metadata
                             THEN eng.file_metadata[filepath]
                             ELSE Basename(filepath),
                 score   |-> sims[kept[k]].score,
                 snippet |-> IF files[filepath].exists /\ files[filepath].readable
                             THEN generate_snippet(files[filepath].text, query_words)
                             ELSE Placeholder,
                 path    |-> filepath]]

\* the similarities search computes for a query
Similarities(eng, query) ==
    cosine_similarity(transform(eng.vectorizer, preprocess_text_content(query)),
                      eng.tfidf_matrix.rows)

\* a loop that keeps every row of the slice, whatever its score
KeptRowsAll(sims, related) == related

\* the rows search keeps: those of the slice above the threshold
KeptRows(sims, related) ==
    SelectSeq(related, LAMBDA i : AboveThreshold(sims[i]))

\* a search without the test for a missing matrix: None has no shape
searchUnguarded(eng, files, query, top_n, order) ==
    IF ~eng.tfidf_matrix.present
    THEN [raised |-> "AttributeError", results |-> << >>]
    ELSE IF ~eng.vectorizer.tfidfFitted
    THEN [raised |-> "NotFittedError", results |-> << >>]
    ELSE LET sims    == Similarities(eng, query)
             related == ReverseSlice(order, top_n)
             kept    == KeptRows(sims, related)
         IN  IF \E k \in DOMAIN kept : kept[k] \notin DOMAIN eng.idx_to_filepath
             THEN [raised |-> "KeyError", results |-> << >>]
             ELSE [raised  |-> "none",
                   results |-> Hits(eng, files, sims, kept,
                                    preprocess_text_content(query))]

\* search(query, top_n), with `order` the outcome of argsort.  Raises
\* NotFittedError when the vectorizer's idf is not fitted and KeyError when a
\* kept row has no entry in idx_to_filepath.
search(eng, files, query, top_n, order) ==
    IF ~eng.tfidf_matrix.present \/ eng.tfidf_matrix.rows = << >>
    THEN [raised |-> "none", results |-> << >>]
    ELSE IF ~eng.vectorizer.tfidfFitted
    THEN [raised |-> "NotFittedError", results |-> << >>]
    ELSE LET sims    == Similarities(eng, query)
             related == ReverseSlice(order, top_n)
             kept    == KeptRows(sims, related)
         IN  IF \E k \in DOMAIN kept : kept[k] \notin DOMAIN eng.idx_to_filepath
             THEN [raised |-> "KeyError", results |-> << >>]
             ELSE [raised  |-> "none",
                   results |-> Hits(eng, files, sims, kept,
                                    preprocess_text_content(query))]

(***************************************************************************)
(* The cache artifact (pickle).  A pickle is the sequence of the key/value *)
(* entries of the saved dictionary; a file may also be absent, corrupt     *)
(* (pickle.load raises) or truncated by an interrupted write.              *)
(***************************************************************************)
StateKeys ==
    <<"vectorizer", "tfidf_matrix", "idx_to_filepath", "file_hashes",
      "file_metadata">>

NoCache == [kind |-> "absent", items |-> << >>]

CorruptCache == [kind |-> "corrupt", items |-> << >>]

TruncatedCache == [kind |-> "truncated", items |-> << >>]

\* a dump that leaves the titles out
pickle_dump_NoTitles(eng) ==
    [kind  |-> "pickle",
     items |-> << <<"vectorizer", eng.vectorizer>>,
                  <<"tfidf_matrix", eng.tfidf_matrix>>,
                  <<"idx_to_filepath", eng.idx_to_filepath>>,
                  <<"file_hashes", eng.file_hashes>> >>]

\* pickle.dump(state, f) of save_to_cache
pickle_dump(eng) ==
    [kind  |-> "pickle",
     items |-> << <<"vectorizer", eng.vectorizer>>,
                  <<"tfidf_matrix", eng.tfidf_matrix>>,
                  <<"idx_to_filepath", eng.idx_to_filepath>>,
                  <<"file_hashes", eng.file_hashes>>,
                  <<"file_metadata", eng.file_metadata>> >>]

\* the keys of the unpickled dictionary
PickledKeys(file) == {file.items[i][1] : i \in DOMAIN file.items}

\* state[key] of the unpickled dictionary
PickledValue(file, key) ==
    LET i == CHOOSE j \in DOMAIN file.items : file.items[j][1] = key
    IN  file.items[i][2]

\* load_from_cache on the engine `eng`: the assignments run in the order of
\* StateKeys and stop at the first key the dictionary lacks (KeyError); every
\* exception is caught
load_from_cache(eng, file) ==
    IF file.kind # "pickle" THEN eng
    ELSE LET missing == {k \in DOMAIN StateKeys :
                            StateKeys[k] \notin PickledKeys(file)}
             assigned(k) == \A m \in missing : k < m
             field(k, old) == IF assigned(k) THEN PickledValue(file, StateKeys[k])
                              ELSE old
         IN  [vectorizer      |-> field(1, eng.vectorizer),
              tfidf_matrix    |-> field(2, eng.tfidf_matrix),
              idx_to_filepath |-> field(3, eng.idx_to_filepath),
              file_hashes     |-> field(4, eng.file_hashes),
              file_metadata   |-> field(5, eng.file_metadata)]

(***************************************************************************)
(* State.                                                                  *)
(***************************************************************************)
VARIABLES
    fs,              \* the files under the root: path -> FileStates
    rootExists,      \* whether the root folder exists
    cache,           \* the file at cache_path
    running,         \* whether the application process is alive
    engine,          \* the fields of the VectorSearchEngine
    lastCall,        \* the most recent call and what it returned (for a
                     \* sync also whether it repeats a sync, nothing having
                     \* changed in between)
    fsOps,           \* number of filesystem mutations so far
    dirty,           \* the tree changed, or the engine was replaced, since
                     \* the start of the last sync
    seenAbsent,      \* the paths the last walk of this engine found absent
    delta,           \* what the last sync met: files added and modified
    saved            \* the engine state the last completed save wrote

VARIABLES
    observer,        \* the watchdog Observer: "new", "alive" or "stopped"
    wpc,             \* where the watcher thread is in FileSystemWatcher.run
    inbox,           \* events the observer has not dispatched yet
    queue,           \* MainApp.event_queue
    hpc,             \* where the dispatcher thread is in on_any_event
    fpc,             \* where the foreground is: constructor ("init"), main
                     \* loop ("idle"), signal taken ("update"), "closed" or
                     \* "crashed"
    unserved,        \* a qualifying event was handled and no sync has
                     \* started since
    stopCalled,      \* FileSystemWatcher.stop has been called
    lastEvent,       \* what on_any_event did with the last event
    last_event_time  \* ChangeHandler.last_event_time of the callback variant:
                     \* 0, or 1 once an event has passed its time test

VARIABLES
    snippet,         \* the last call of _generate_snippet on its own: the
                     \* arguments and the excerpt returned
    summaries        \* the summary caches (dictionary and file) of the two
                     \* summarizers and their last call

\* the engine, the tree and the cache file
vars0 ==
    <<fs, rootExists, cache, running, engine, lastCall, fsOps,
      dirty, seenAbsent, delta, saved>>

\* the watcher, the queue and the threads
wvars ==
    <<observer, wpc, inbox, queue, hpc, fpc, unserved, stopCalled, lastEvent,
      last_event_time>>

vars ==
    <<fs, rootExists, cache, running, engine, lastCall, fsOps,
      dirty, seenAbsent, delta, saved,
      observer, wpc, inbox, queue, hpc, fpc, unserved, stopCalled, lastEvent,
      last_event_time, snippet, summaries>>

\* the call of _generate_snippet and the summarizers
pvars == <<snippet, summaries>>

NoDelta == [added |-> {}, modified |-> {}]

NotSaved == [valid |-> FALSE, engine |-> NewEngine]

Call(op, query, top_n, raised, changed, results) ==
    [op |-> op, query |-> query, top_n |-> top_n, raised |-> raised,
     changed |-> changed, results |-> results, repeat |-> FALSE]

\* an empty cache dictionary, and a dictionary with the entry of the document
NoEntries == << >>

Entry(e) == [p \in {PA} |-> e]

\* no call yet
NoSummaryCall == [op |-> "none", generated |-> FALSE, llm |-> "answer",
                  hash |-> 0, returned |-> ""]

\* both summarizers constructed without cache files
NoSummaries ==
    [manager_cache |-> NoEntries, manager_file |-> NoEntries,
     summarizer_cache |-> NoEntries, summarizer_file |-> NoEntries,
     last |-> NoSummaryCall]

\* _generate_snippet has not been called
NoSnippet == [text |-> << >>, read |-> FALSE, query_words |-> << >>,
              length |-> 0, called |-> FALSE, result |-> << >>]

\* the trees the application can be started on: the root as os.makedirs
\* leaves it, or holding one document the user put there before
InitialTrees ==
    { [p \in Paths |-> NoFile],
      [p \in Paths |-> IF p = PA
                       THEN [exists |-> TRUE, readable |-> TRUE,
                             text |-> <<"the">>]
                       ELSE NoFile] }

\* the watcher vars as the constructor of MainApp finds them: no thread, no
\* observer, an empty queue
WatcherOff ==
    /\ observer = "new"
    /\ wpc = "off"
    /\ inbox = << >>
    /\ queue = << >>
    /\ hpc = "idle"
    /\ fpc = "init"
    /\ unserved = FALSE
    /\ stopCalled = FALSE
    /\ lastEvent = "none"
    /\ last_event_time = 0

\* the application has been launched on its root, without a cache file
Init ==
    /\ fs \in InitialTrees
    /\ rootExists = TRUE
    /\ cache = NoCache
    /\ running = TRUE
    /\ engine = NewEngine
    /\ lastCall = Call("init", << >>, 0, "none", FALSE, << >>)
    /\ fsOps = 0
    /\ dirty = TRUE
    /\ seenAbsent = {}
    /\ delta = NoDelta
    /\ saved = NotSaved
    /\ WatcherOff
    /\ snippet = NoSnippet
    /\ summaries = NoSummaries

(***************************************************************************)
(* The environment: the user's changes to the tree and to the cache file.  *)
(***************************************************************************)
EnvStep(op) ==
    /\ fsOps' = fsOps + 1
    /\ dirty' = TRUE
    /\ delta' = NoDelta
    /\ lastCall' = Call(op, << >>, 0, "none", FALSE, << >>)
    /\ UNCHANGED <<running, engine, seenAbsent, saved>>

\* a file is created or overwritten
WriteFile(p, text) ==
    /\ fsOps < MaxFsOps
    /\ rootExists
    /\ fs[p] # [exists |-> TRUE, readable |-> TRUE, text |-> text]
    /\ fs' = [fs EXCEPT ![p] = [exists |-> TRUE, readable |-> TRUE, text |-> text]]
    /\ EnvStep("write")
    /\ UNCHANGED <<rootExists, cache>>

\* a file is removed
DeleteFile(p) ==
    /\ fsOps < MaxFsOps
    /\ fs[p].exists
    /\ fs' = [fs EXCEPT ![p] = NoFile]
    /\ EnvStep("delete")
    /\ UNCHANGED <<rootExists, cache>>

\* the permissions of a file change: it becomes unreadable, or readable again
Chmod(p) ==
    /\ fsOps < MaxFsOps
    /\ fs[p].exists
    /\ fs' = [fs EXCEPT ![p].readable = ~@]
    /\ EnvStep("chmod")
    /\ UNCHANGED <<rootExists, cache>>

\* the root folder is removed with everything under it
RemoveRoot ==
    /\ fsOps < MaxFsOps
    /\ rootExists
    /\ rootExists' = FALSE
    /\ fs' = [p \in Paths |-> NoFile]
    /\ EnvStep("rmtree")
    /\ UNCHANGED cache

\* the root folder is created again
CreateRoot ==
    /\ fsOps < MaxFsOps
    /\ ~rootExists
    /\ rootExists' = TRUE
    /\ EnvStep("mkdir")
    /\ UNCHANGED <<fs, cache>>

\* the cache file is deleted or overwritten with bytes that do not unpickle
DamageCache(file) ==
    /\ fsOps < MaxFsOps
    /\ cache # file
    /\ cache' = file
    /\ EnvStep("damage")
    /\ UNCHANGED <<fs, rootExists>>

\* the cache file is replaced by a pickle of another format: a dictionary
\* without the entry `key`
ForeignCache(key) ==
    /\ fsOps < MaxFsOps
    /\ cache.kind = "pickle"
    /\ key \in PickledKeys(cache)
    /\ cache' = [cache EXCEPT !.items = SelectSeq(@, LAMBDA e : e[1] # key)]
    /\ EnvStep("foreign")
    /\ UNCHANGED <<fs, rootExists>>

(***************************************************************************)
(* The application.                                                        *)
(***************************************************************************)
\* the process (re)starts: VectorSearchEngine() and load_from_cache()
\* (MainApp.__init__)
Startup ==
    /\ engine' = load_from_cache(NewEngine, cache)
    /\ running' = TRUE
    /\ lastCall' = Call("startup", << >>, 0, "none", FALSE, << >>)
    /\ dirty' = TRUE
    /\ seenAbsent' = {}
    /\ delta' = NoDelta
    /\ UNCHANGED <<fs, rootExists, cache, fsOps, saved>>

\* the content whose digest is recorded
TextOf(digest) == CHOOSE t \in Texts : Sha256(t) = digest

\* what a walk over `files` finds new and modified, for an engine whose
\* last walk found `absent` absent
DeltaOf(eng, files, absent) ==
    [added    |-> {p \in absent : /\ EndsWithTxt(p)
                                  /\ files[p].exists /\ files[p].readable},
     modified |-> {[path |-> p, old |-> TextOf(eng.file_hashes[p])] :
                      p \in {q \in DOMAIN eng.file_hashes :
                                /\ files[q].exists /\ files[q].readable
                                /\ Sha256(files[q].text) # eng.file_hashes[q]}}]

\* how the write of the cache file in save_to_cache can end: "ok", "oserror"
\* (open fails and the exception is caught: the file is left as it was) or
\* "killed" (the process dies during pickle.dump)
SaveOutcomes == {"ok", "oserror", "killed"}

\* update_index: sync_index_with_filesystem(ROOT_DOCS_FOLDER), which saves
\* the cache when it rebuilt.  `raced` is a file removed by the user after
\* the walk hashed it and before the rebuild reads it.  When the rebuild
\* raises, the installed TfidfVectorizer.fit_transform has or has not
\* discarded its fitted idf before reading the documents (releases of the
\* library differ): `resets`.
Sync(raced) ==
    LET fsR == [p \in Paths |-> IF p \in raced THEN NoFile ELSE fs[p]]
        r0  == sync_index_with_filesystem(engine, fs, rootExists, fsR, FALSE)
    IN  /\ running
        /\ raced # {} =>
              /\ fsOps < MaxFsOps
              /\ r0.changed
              /\ r0.engine.file_hashes # << >>
        /\ \E outcome \in IF r0.changed /\ r0.raised = "none"
                          THEN SaveOutcomes ELSE {"ok"},
              resets \in IF r0.raised # "none" /\ engine.vectorizer.tfidfFitted
                         THEN BOOLEAN ELSE {FALSE} :
             LET r      == IF resets
                           THEN sync_index_with_filesystem(engine, fs, rootExists,
                                                           fsR, TRUE)
                           ELSE r0
                 saves  == r.changed /\ r.raised = "none"
                 killed == saves /\ outcome = "killed"
             IN  /\ engine' = IF killed THEN NewEngine ELSE r.engine
                 /\ running' = ~killed
                 /\ cache' = IF ~saves \/ outcome = "oserror" THEN cache
                             ELSE IF killed THEN TruncatedCache
                             ELSE pickle_dump(r.engine)
                 /\ saved' = IF saves /\ outcome = "ok"
                             THEN [valid |-> TRUE, engine |-> r.engine]
                             ELSE saved
                 /\ lastCall' = [Call("sync", << >>, 0,
                                      IF killed THEN "killed" ELSE r.raised,
                                      r.changed, << >>)
                                 EXCEPT !.repeat = ~dirty]
                 /\ dirty' = (raced # {} \/ killed)
                 /\ seenAbsent' = IF killed THEN {}
                                  ELSE {p \in Paths : ~fs[p].exists}
                 /\ delta' = IF raced # {} \/ killed THEN NoDelta
                             ELSE DeltaOf(engine, fs, seenAbsent)
        /\ fs' = fsR
        /\ fsOps' = IF raced # {} THEN fsOps + 1 ELSE fsOps
        /\ UNCHANGED rootExists

\* perform_search: search(query, top_n)
Search(query, top_n) ==
    /\ running
    /\ LET searchable == /\ engine.tfidf_matrix.present
                         /\ engine.vectorizer.tfidfFitted
           sims       == IF searchable THEN Similarities(engine, query)
                         ELSE << >>
       IN  \E order \in IF searchable THEN argsort(sims) ELSE {<< >>} :
             LET r == search(engine, fs, query, top_n, order)
             IN  lastCall' = Call("search", query, top_n, r.raised, FALSE,
                                 r.results)
    /\ UNCHANGED <<fs, rootExists, cache, running, engine, fsOps,
                   dirty, seenAbsent, delta, saved>>

\* the engine under explicit calls: the user changes the tree and the cache
\* file, the application is (re)started, syncs and searches; the watcher is
\* left out (a sync may happen at any time)
Next ==
    \/ /\ \E p \in Paths : \E text \in TextsFor(p) : WriteFile(p, text)
       /\ UNCHANGED <<wvars, pvars>>
    \/ /\ \E p \in Paths : DeleteFile(p)
       /\ UNCHANGED <<wvars, pvars>>
    \/ /\ \E p \in Paths : Chmod(p)
       /\ UNCHANGED <<wvars, pvars>>
    \/ /\ RemoveRoot
       /\ UNCHANGED <<wvars, pvars>>
    \/ /\ CreateRoot
       /\ UNCHANGED <<wvars, pvars>>
    \/ /\ \E file \in {NoCache, CorruptCache} : DamageCache(file)
       /\ UNCHANGED <<wvars, pvars>>
    \/ /\ \E k \in DOMAIN StateKeys : ForeignCache(StateKeys[k])
       /\ UNCHANGED <<wvars, pvars>>
    \/ /\ Startup
       /\ UNCHANGED <<wvars, pvars>>
    \/ /\ Sync({})
       /\ UNCHANGED <<wvars, pvars>>
    \/ /\ \E p \in Paths :
             /\ fs[p].exists /\ fs[p].readable /\ EndsWithTxt(p)
             /\ Sync({p})
       /\ UNCHANGED <<wvars, pvars>>
    \/ /\ \E query \in Queries, top_n \in TopNs : Search(query, top_n)
       /\ UNCHANGED <<wvars, pvars>>

Spec == Init /\ [][Next]_vars

(***************************************************************************)
(* The watcher (FileSystemWatcher, ChangeHandler), the signal queue and    *)
(* the poll loop of MainApp.  Three threads: the foreground (Tk main       *)
(* loop), the watcher thread (FileSystemWatcher.run) and the observer's    *)
(* dispatcher thread, which calls on_any_event for one event at a time.    *)
(***************************************************************************)
\* meaningful_events of on_any_event
meaningful_events == {"created", "modified", "deleted", "moved"}

\* the dest_path of an event that is not a move: the attribute is missing or
\* the empty string, depending on the release of watchdog; neither ends with
\* '.txt'
NoPath == [dir |-> "", name |-> "", ext |-> ""]

\* a filesystem event as the observer hands it to the handler
FsEvent(event_type, src_path, is_directory) ==
    [event_type |-> event_type, src_path |-> src_path, dest_path |-> NoPath,
     is_directory |-> is_directory]

\* a FileMovedEvent or DirMovedEvent
MovedEvent(src_path, dest_path, is_directory) ==
    [FsEvent("moved", src_path, is_directory) EXCEPT !.dest_path = dest_path]

\* the suffix test of the callback variant: src_path alone
src_is_txt(event) == EndsWithTxt(event.src_path)

\* is_txt_event: src_path or dest_path ends with '.txt'
is_txt_event(event) ==
    EndsWithTxt(event.src_path) \/ EndsWithTxt(event.dest_path)

\* the tests of on_any_event before it touches the queue
Qualifies(event) ==
    /\ event.event_type \in meaningful_events
    /\ ~event.is_directory
    /\ is_txt_event(event)

\* a check that always finds the queue empty
QueueAlwaysEmpty(q) == TRUE

\* a check that never finds the queue empty
QueueNeverEmpty(q) == FALSE

\* self.queue.empty()
queue_empty(q) == q = << >>

\* the observer reports a change under the root while it is alive
Notify(event) ==
    inbox' = IF observer = "alive" THEN Append(inbox, event) ELSE inbox

\* a file is created or overwritten under the watched root
WatchedWrite(p, text) ==
    /\ UNCHANGED pvars
    /\ WriteFile(p, text)
    /\ Notify(FsEvent(IF fs[p].exists THEN "modified" ELSE "created", p, FALSE))
    /\ UNCHANGED <<observer, wpc, queue, hpc, fpc, unserved, stopCalled, lastEvent,
                   last_event_time>>

\* a file is removed under the watched root
WatchedDelete(p) ==
    /\ UNCHANGED pvars
    /\ DeleteFile(p)
    /\ Notify(FsEvent("deleted", p, FALSE))
    /\ UNCHANGED <<observer, wpc, queue, hpc, fpc, unserved, stopCalled, lastEvent,
                   last_event_time>>

\* a file under the watched root is opened by another program
WatchedOpen(p) ==
    /\ UNCHANGED pvars
    /\ fsOps < MaxFsOps
    /\ fs[p].exists
    /\ EnvStep("open")
    /\ Notify(FsEvent("opened", p, FALSE))
    /\ UNCHANGED <<fs, rootExists, cache>>
    /\ UNCHANGED <<observer, wpc, queue, hpc, fpc, unserved, stopCalled, lastEvent,
                   last_event_time>>

\* MainApp.__init__ from update_index on: the first sync, then the watcher
\* thread is started and the poll loop scheduled.  An exception of the sync
\* leaves the constructor: no watcher, no poll loop.
StartApp ==
    /\ UNCHANGED pvars
    /\ fpc = "init"
    /\ Sync({})
    /\ fpc' = IF lastCall'.raised = "none" THEN "idle" ELSE "crashed"
    /\ wpc' = IF lastCall'.raised = "none" THEN "schedule" ELSE "off"
    /\ UNCHANGED <<observer, inbox, queue, hpc, unserved, stopCalled, lastEvent,
                   last_event_time>>

\* run: ChangeHandler(...) and observer.schedule(...), which may fail
RunSchedule ==
    /\ running
    /\ wpc = "schedule"
    /\ \E ok \in BOOLEAN : wpc' = IF ok THEN "start" ELSE "raised"
    /\ UNCHANGED <<observer, inbox, queue, hpc, fpc, unserved, stopCalled, lastEvent,
                   last_event_time>>
    /\ UNCHANGED <<vars0, pvars>>

\* run: observer.start(), which may fail (no watch can be registered)
RunStart ==
    /\ running
    /\ wpc = "start"
    /\ \E ok \in BOOLEAN :
          /\ wpc' = IF ok THEN "loop" ELSE "raised"
          /\ observer' = IF ok THEN "alive" ELSE observer
    /\ UNCHANGED <<inbox, queue, hpc, fpc, unserved, stopCalled, lastEvent,
                   last_event_time>>
    /\ UNCHANGED <<vars0, pvars>>

\* run: while self.observer.is_alive(): self.observer.join(1) -- the loop is
\* left when the observer is no longer alive
RunLoop ==
    /\ running
    /\ wpc = "loop"
    /\ observer # "alive"
    /\ wpc' = "finally"
    /\ UNCHANGED <<observer, inbox, queue, hpc, fpc, unserved, stopCalled, lastEvent,
                   last_event_time>>
    /\ UNCHANGED <<vars0, pvars>>

\* run: the finally block -- stop the observer if it is alive, join it
RunFinally ==
    /\ running
    /\ wpc = "finally"
    /\ observer' = IF observer = "alive" THEN "stopped" ELSE observer
    /\ wpc' = "done"
    /\ UNCHANGED <<inbox, queue, hpc, fpc, unserved, stopCalled, lastEvent,
                   last_event_time>>
    /\ UNCHANGED <<vars0, pvars>>

\* on_any_event up to the test of the queue: an event that does not qualify
\* is ignored; for one that does, the handler looks whether the queue is
\* empty
OnAnyEvent ==
    /\ running
    /\ observer = "alive"
    /\ hpc = "idle"
    /\ inbox # << >>
    /\ inbox' = Tail(inbox)
    /\ LET event == Head(inbox)
       IN  IF ~Qualifies(event)
           THEN /\ hpc' = "idle"
                /\ lastEvent' = "ignored"
                /\ UNCHANGED unserved
           ELSE IF queue_empty(queue)
           THEN /\ hpc' = "put"
                /\ lastEvent' = "checked"
                /\ UNCHANGED unserved
           ELSE /\ hpc' = "idle"
                /\ lastEvent' = "dropped"
                /\ unserved' = TRUE
    /\ UNCHANGED <<observer, wpc, queue, fpc, stopCalled,
                   last_event_time>>
    /\ UNCHANGED <<vars0, pvars>>

\* on_any_event: self.queue.put("rescan_needed"), after the queue was found
\* empty
QueuePut ==
    /\ running
    /\ hpc = "put"
    /\ queue' = Append(queue, "rescan_needed")
    /\ hpc' = "idle"
    /\ lastEvent' = "put"
    /\ unserved' = TRUE
    /\ UNCHANGED <<observer, wpc, inbox, fpc, stopCalled,
                   last_event_time>>
    /\ UNCHANGED <<vars0, pvars>>

\* check_queue_for_updates: get_nowait() returns a signal (on queue.Empty
\* the poll changes nothing)
PollGet ==
    /\ running
    /\ fpc = "idle"
    /\ queue # << >>
    /\ Head(queue) = "rescan_needed"
    /\ queue' = Tail(queue)
    /\ fpc' = "update"
    /\ UNCHANGED <<observer, wpc, inbox, hpc, unserved, stopCalled, lastEvent,
                   last_event_time>>
    /\ UNCHANGED <<vars0, pvars>>

\* check_queue_for_updates: update_index() after a signal was taken; the
\* finally block schedules the next poll whether or not the sync raised
PollUpdate ==
    /\ UNCHANGED pvars
    /\ fpc = "update"
    /\ Sync({})
    /\ fpc' = "idle"
    /\ unserved' = FALSE
    /\ UNCHANGED <<observer, wpc, inbox, queue, hpc, stopCalled, lastEvent,
                   last_event_time>>

\* FileSystemWatcher.stop: the observer is stopped if it is alive
stop(obs) == IF obs = "alive" THEN "stopped" ELSE obs

\* on_closing: watcher.stop(), root.destroy()
OnClosing ==
    /\ running
    /\ fpc = "idle"
    /\ observer' = stop(observer)
    /\ stopCalled' = TRUE
    /\ fpc' = "closed"
    /\ UNCHANGED <<wpc, inbox, queue, hpc, unserved, lastEvent,
                   last_event_time>>
    /\ UNCHANGED <<vars0, pvars>>

WNext ==
    \/ \E p \in Paths : \E text \in TextsFor(p) : WatchedWrite(p, text)
    \/ \E p \in Paths : WatchedDelete(p)
    \/ \E p \in Paths : WatchedOpen(p)
    \/ StartApp
    \/ RunSchedule
    \/ RunStart
    \/ RunLoop
    \/ RunFinally
    \/ OnAnyEvent
    \/ QueuePut
    \/ PollGet
    \/ PollUpdate
    \/ OnClosing

\* the application with its watcher: the tree changes under the observer,
\* the poll loop syncs
WatchSpec == Init /\ [][WNext]_vars

(***************************************************************************)
(* The signalling alone, for progress: the same threads, with the tree and *)
(* the engine left out.  An event is any event the observer can report; a  *)
(* sync is what the poll loop sees of it: it returns, it raises, or the    *)
(* process dies in it.                                                     *)
(***************************************************************************)
\* the events the observer reports in this view
ReportedEvents ==
    { FsEvent("created", PA, FALSE), FsEvent("modified", PB, FALSE),
      FsEvent("deleted", PA, FALSE), FsEvent("modified", PN, FALSE),
      FsEvent("opened", PA, FALSE) }

\* how a call of update_index ends for its caller: sync_index_with_filesystem
\* returns, raises out of fit_transform, or the process dies during the save
UpdateOutcomes == {"none", "ValueError", "OSError", "killed"}

\* something happens under the watched root; an event the handler would let
\* through is a change to a '.txt' file, which the next walk has to see
WatchedEvent(event) ==
    /\ UNCHANGED pvars
    /\ running
    /\ fsOps < MaxEvents
    /\ fsOps' = fsOps + 1
    /\ Notify(event)
    /\ dirty' = (dirty \/ Qualifies(event))
    /\ UNCHANGED <<fs, rootExists, cache, running, engine, lastCall,
                   seenAbsent, delta, saved>>
    /\ UNCHANGED <<observer, wpc, queue, hpc, fpc, unserved, stopCalled, lastEvent,
                   last_event_time>>

\* update_index as its caller sees it: a walk of the tree as it is now
update_index(outcome) ==
    /\ UNCHANGED pvars
    /\ running
    /\ running' = (outcome # "killed")
    /\ lastCall' = Call("sync", << >>, 0, outcome, FALSE, << >>)
    /\ dirty' = FALSE
    /\ UNCHANGED <<fs, rootExists, cache, engine, fsOps,
                   seenAbsent, delta, saved>>

\* MainApp.__init__ from update_index on (see StartApp)
StartAppSignalling ==
    /\ fpc = "init"
    /\ \E outcome \in UpdateOutcomes :
          /\ update_index(outcome)
          /\ fpc' = IF outcome = "none" THEN "idle" ELSE "crashed"
          /\ wpc' = IF outcome = "none" THEN "schedule" ELSE "off"
    /\ UNCHANGED <<observer, inbox, queue, hpc, unserved, stopCalled, lastEvent,
                   last_event_time>>

\* check_queue_for_updates: update_index() after a signal was taken (see
\* PollUpdate)
PollUpdateSignalling ==
    /\ fpc = "update"
    /\ \E outcome \in UpdateOutcomes : update_index(outcome)
    /\ fpc' = "idle"
    /\ unserved' = FALSE
    /\ UNCHANGED <<observer, wpc, inbox, queue, hpc, stopCalled, lastEvent,
                   last_event_time>>

SNext ==
    \/ \E event \in ReportedEvents : WatchedEvent(event)
    \/ StartAppSignalling
    \/ RunSchedule
    \/ RunStart
    \/ RunLoop
    \/ RunFinally
    \/ OnAnyEvent
    \/ QueuePut
    \/ PollGet
    \/ PollUpdateSignalling
    \/ OnClosing

\* the scheduling the threads and Tk's after() give: the watcher thread
\* gets to schedule and start its observer, the dispatcher thread handles
\* the events it was given, a pending put is done, a pending signal is
\* polled, and update_index comes back to the poll loop
SignalSpec ==
    /\ Init
    /\ [][SNext]_vars
    /\ WF_vars(RunSchedule)
    /\ WF_vars(RunStart)
    /\ WF_vars(OnAnyEvent)
    /\ WF_vars(QueuePut)
    /\ WF_vars(PollGet)
    /\ WF_vars(PollUpdateSignalling)

(***************************************************************************)
(* The two ChangeHandler variants on one stream of events: the handler     *)
(* that puts a signal on the queue (sem7/lab1/watcher.py) and the handler  *)
(* that calls a callback (sem7/lab3/watcher.py).  FileSystemWatcher.run    *)
(* installs one of them when it schedules the observer.                    *)
(***************************************************************************)
\* the events the observer reports: files and directories, moves from and to
\* a '.txt' name, an event type outside meaningful_events, a file that is
\* not a '.txt' file
HandledEvents ==
    { FsEvent("created", PA, FALSE),
      FsEvent("deleted", PB, FALSE),
      FsEvent("modified", PN, FALSE),
      FsEvent("opened", PA, FALSE),
      FsEvent("created", PA, TRUE),
      MovedEvent(PN, PA, FALSE),
      MovedEvent(PA, PN, FALSE),
      MovedEvent(PN, PB, TRUE) }

\* something happens under the watched root
HandlerEvent(event) ==
    /\ UNCHANGED pvars
    /\ running
    /\ fsOps < MaxHandled
    /\ fsOps' = fsOps + 1
    /\ Notify(event)
    /\ UNCHANGED <<fs, rootExists, cache, running, engine, lastCall,
                   dirty, seenAbsent, delta, saved>>
    /\ UNCHANGED <<observer, wpc, queue, hpc, fpc, unserved, stopCalled,
                   lastEvent, last_event_time>>

\* run of sem7/lab3/watcher.py: ChangeHandler(self.on_change_callback) is
\* created and scheduled; observer.schedule may fail
RunSchedule3 ==
    /\ running
    /\ wpc = "schedule"
    /\ \E ok \in BOOLEAN :
          /\ wpc' = IF ok THEN "start" ELSE "raised"
          /\ hpc' = IF ok THEN "idle3" ELSE hpc
    /\ UNCHANGED <<observer, inbox, queue, fpc, unserved, stopCalled,
                   lastEvent, last_event_time>>
    /\ UNCHANGED <<vars0, pvars>>

\* the first test of on_any_event in sem7/lab3/watcher.py: a directory event
\* or a src_path that does not end with '.txt' returns at once
Returns3(event) ==
    \/ event.is_directory
    \/ ~src_is_txt(event)
    \/ event.event_type \notin meaningful_events

\* on_any_event of sem7/lab3/watcher.py.  An event that passes the tests is
\* reported to the callback when more than two seconds have passed since
\* last_event_time (always so for the first one: last_event_time is 0).
OnAnyEvent3 ==
    /\ running
    /\ observer = "alive"
    /\ hpc = "idle3"
    /\ inbox # << >>
    /\ inbox' = Tail(inbox)
    /\ LET event == Head(inbox)
       IN  IF Returns3(event)
           THEN /\ lastEvent' = "ignored3"
                /\ UNCHANGED last_event_time
           ELSE \E elapsed \in IF last_event_time = 0 THEN {TRUE} ELSE BOOLEAN :
                   IF elapsed
                   THEN /\ lastEvent' = "called3"
                        /\ last_event_time' = 1
                   ELSE /\ lastEvent' = "debounced3"
                        /\ UNCHANGED last_event_time
    /\ UNCHANGED <<observer, wpc, queue, hpc, fpc, unserved, stopCalled>>
    /\ UNCHANGED <<vars0, pvars>>

HNext ==
    \/ \E event \in HandledEvents : HandlerEvent(event)
    \/ StartAppSignalling
    \/ RunSchedule
    \/ RunSchedule3
    \/ RunStart
    \/ OnAnyEvent
    \/ QueuePut
    \/ PollGet
    \/ PollUpdateSignalling
    \/ OnAnyEvent3

HandlerSpec == Init /\ [][HNext]_vars

(***************************************************************************)
(* _generate_snippet on its own.  A text is a sequence of characters; the  *)
(* ellipsis is the three characters "...".                                 *)
(***************************************************************************)
\* the characters of the raw texts: letters in both cases and the blank
Chars == {"a", "A", "b", " "}

\* the raw texts _generate_snippet is called on
RawTexts == UNION {[1..n -> Chars] : n \in 0..MaxTextLen}

\* the words a processed query is split into: "a", "b" and "ab"
Words == { <<"a">>, <<"b">>, <<"a", "b">> }

\* processed_query.split(): up to two different words, in either order
WordLists ==
    {<< >>} \cup {<<w>> : w \in Words}
            \cup {x \in Words \X Words : x[1] # x[2]}

\* the values of the parameter length: the default 250 and short windows,
\* empty, even and odd
Lengths == {0, 1, 2, 3, 250}

\* \w of the regular expression
IsWordChar(c) == c # " "

\* re.IGNORECASE
Lower(c) == IF c = "A" THEN "a" ELSE c

\* \b at offset i (between text[i-1] and text[i], Python's indexing)
Boundary(text, i) ==
    LET before == i >= 1 /\ IsWordChar(text[i])
        after  == i < Len(text) /\ IsWordChar(text[i + 1])
    IN  before # after

\* \b word \b matches at offset i
MatchesAt(text, word, i) ==
    /\ i + Len(word) <= Len(text)
    /\ \A k \in 1..Len(word) : Lower(text[i + k]) = Lower(word[k])
    /\ Boundary(text, i)
    /\ Boundary(text, i + Len(word))

\* the smallest member of a non-empty set of integers
Least(S) == CHOOSE x \in S : \A y \in S : x <= y

\* re.search(...): match.start() of the leftmost match, -1 for no match
re_search(text, word) ==
    LET at == {i \in 0..Len(text) : MatchesAt(text, word, i)}
    IN  IF at = {} THEN -1 ELSE Least(at)

\* the loop over query_words: the position of the first word, in the order
\* of the query, that matches; -1 when none does
match_pos(text, query_words) ==
    LET found == {k \in DOMAIN query_words :
                     re_search(text, query_words[k]) # -1}
    IN  IF found = {} THEN -1
        ELSE re_search(text, query_words[Least(found)])

\* "..."
Ellipsis == <<".", ".", ".">>

\* text[start:end] for 0 <= start and 0 <= end
Slice(text, start, end) ==
    LET upto == IF end < Len(text) THEN end ELSE Len(text)
    IN  IF start < upto THEN SubSeq(text, start + 1, upto) ELSE << >>

\* an excerpt without the ellipses
ExcerptBare(text, pos, length) ==
    LET half  == length \div 2
        start == IF pos - half > 0 THEN pos - half ELSE 0
    IN  Slice(text, start, pos + half)

\* the excerpt around position pos: length // 2 characters to either side,
\* with the ellipses
Excerpt(text, pos, length) ==
    LET half  == length \div 2
        start == IF pos - half > 0 THEN pos - half ELSE 0
        end   == IF pos + half < Len(text) THEN pos + half ELSE Len(text)
    IN  (IF start > 0 THEN Ellipsis ELSE << >>)
        \o Slice(text, start, end)
        \o (IF end < Len(text) THEN Ellipsis ELSE << >>)

\* _generate_snippet(text, query_words, length)
generate_snippet_chars(text, query_words, length) ==
    LET pos == match_pos(text, query_words)
    IN  IF pos = -1
        THEN IF Len(text) > length
             THEN Slice(text, 0, length) \o Ellipsis
             ELSE text
        ELSE Excerpt(text, pos, length)

\* search reads the content of a hit: content = f.read()
ReadContent(text) ==
    /\ ~snippet.read
    /\ snippet' = [snippet EXCEPT !.text = text, !.read = TRUE]
    /\ UNCHANGED <<vars0, wvars, summaries>>

\* one call of _generate_snippet on the content read
GenerateSnippet(query_words, length) ==
    /\ snippet.read
    /\ ~snippet.called
    /\ snippet' = [snippet EXCEPT
                      !.query_words = query_words,
                      !.length = length,
                      !.called = TRUE,
                      !.result = generate_snippet_chars(snippet.text,
                                                        query_words, length)]
    /\ UNCHANGED <<vars0, wvars, summaries>>

SnippetNext ==
    \/ \E text \in RawTexts : ReadContent(text)
    \/ \E query_words \in WordLists, length \in Lengths :
          GenerateSnippet(query_words, length)

SnippetSpec == Init /\ [][SnippetNext]_vars

(***************************************************************************)
(* The summary caches: SummarizationManager (sem7/lab1/summarizer.py) and  *)
(* DocumentSummarizer (sem7/lab3/summarizer.py), each with its dictionary  *)
(* and its JSON file, for one document.                                    *)
(***************************************************************************)
\* the digests of the two versions of the document
Hashes == {1, 2}

\* how ollama.chat ends: with an answer, with an answer that contains the
\* text "Error:", or with an exception (the service cannot be reached)
LlmOutcomes == {"answer", "answer_about_errors", "fail"}

\* response['message']['content']
LlmText(llm) ==
    IF llm = "answer" THEN "A summary."
    ELSE "The text explains Error: lines in logs."

\* the messages the two summarizers return for a failed call of ollama.chat
ManagerErrorMsg == "Error: Could not get summary."

KeywordErrorMsg == "Error connecting to Ollama"

\* "Error:" in summary
HasErrorMark(summary) ==
    summary \in {ManagerErrorMsg, "The text explains Error: lines in logs."}

\* _generate_summary_with_ollama(content): (summary, success)
generate_summary_with_ollama(content, llm) ==
    IF content = ""
    THEN [summary |-> "File is empty. No summary available.", success |-> TRUE]
    ELSE IF llm = "fail"
    THEN [summary |-> ManagerErrorMsg, success |-> FALSE]
    ELSE [summary |-> LlmText(llm), success |-> TRUE]

\* _get_keyword_summary_ollama(text): the answer, or the error text
get_keyword_summary_ollama(text, llm) ==
    IF llm = "fail" THEN KeywordErrorMsg ELSE LlmText(llm)

\* SummarizationManager.get_summary(PA, current_file_hash).  `content` is
\* what the file holds, `readable` whether open() succeeds, `written` whether
\* _save_cache could write the file.
get_summary(current_file_hash, content, readable, llm, written) ==
    LET held == summaries.manager_cache
        hit   == PA \in DOMAIN held /\ held[PA].hash = current_file_hash
        gen   == generate_summary_with_ollama(content, llm)
        store == gen.success /\ ~HasErrorMark(gen.summary)
        entry == Entry([hash |-> current_file_hash, summary |-> gen.summary])
    IN  /\ summaries' =
              IF hit
              THEN [summaries EXCEPT
                       !.last = [op |-> "get_summary", generated |-> FALSE,
                                 llm |-> "answer", hash |-> current_file_hash,
                                 returned |-> held[PA].summary]]
              ELSE IF ~readable
              THEN [summaries EXCEPT
                       !.last = [op |-> "get_summary", generated |-> FALSE,
                                 llm |-> "answer", hash |-> current_file_hash,
                                 returned |-> "Error: Could not read file"]]
              ELSE [summaries EXCEPT
                       !.manager_cache = IF store THEN entry ELSE @,
                       !.manager_file = IF store /\ written THEN entry ELSE @,
                       !.last = [op |-> "get_summary",
                                 generated |-> content # "",
                                 llm |-> IF content # "" THEN llm ELSE "answer",
                                 hash |-> current_file_hash,
                                 returned |-> gen.summary]]
        /\ UNCHANGED <<vars0, wvars, snippet>>

\* DocumentSummarizer.create_summaries(PA).  `current_hash` is the digest
\* _calculate_file_hash returns (None for an unreadable file), `readable`
\* whether get_text_from_file succeeds afterwards.
create_summaries(current_hash, readable, llm, written) ==
    LET held == summaries.summarizer_cache
        hit   == PA \in DOMAIN held /\ held[PA].hash = current_hash
        kw    == get_keyword_summary_ollama("text", llm)
        entry == Entry([hash |-> current_hash, keyword_summary |-> kw,
                        classic_summary |-> "Classic."])
    IN  /\ summaries' =
              IF current_hash = None
              THEN [summaries EXCEPT
                       !.last = [op |-> "create_summaries", generated |-> FALSE,
                                 llm |-> "answer", hash |-> None,
                                 returned |-> "Error: Could not read file to generate hash."]]
              ELSE IF hit
              THEN [summaries EXCEPT
                       !.last = [op |-> "create_summaries", generated |-> FALSE,
                                 llm |-> "answer", hash |-> current_hash,
                                 returned |-> held[PA].keyword_summary]]
              ELSE IF ~readable
              THEN [summaries EXCEPT
                       !.last = [op |-> "create_summaries", generated |-> FALSE,
                                 llm |-> "answer", hash |-> current_hash,
                                 returned |-> "Failed to process file"]]
              ELSE [summaries EXCEPT
                       !.summarizer_cache = entry,
                       !.summarizer_file = IF written THEN entry ELSE @,
                       !.last = [op |-> "create_summaries", generated |-> TRUE,
                                 llm |-> llm, hash |-> current_hash,
                                 returned |-> kw]]
        /\ UNCHANGED <<vars0, wvars, snippet>>

\* the application is started again: both constructors run _load_cache
LoadSummaryCaches ==
    /\ summaries' = [summaries EXCEPT
                        !.manager_cache = summaries.manager_file,
                        !.summarizer_cache = summaries.summarizer_file,
                        !.last = NoSummaryCall]
    /\ UNCHANGED <<vars0, wvars, snippet>>

SummaryNext ==
    \/ \E h \in Hashes, content \in {"", "text"}, readable \in BOOLEAN,
          llm \in LlmOutcomes, written \in BOOLEAN :
          get_summary(h, content, readable, llm, written)
    \/ \E h \in Hashes \cup {None}, readable \in BOOLEAN,
          llm \in LlmOutcomes, written \in BOOLEAN :
          create_summaries(h, readable, llm, written)
    \/ LoadSummaryCaches

SummarySpec == Init /\ [][SummaryNext]_vars

(***************************************************************************)
(* Properties.                                                             *)
(***************************************************************************)
\* the paths the index maps rows to
IndexedPaths == Range(engine.idx_to_filepath)

\* the paths of the hits the last search returned
ResultPaths == {lastCall.results[i].path : i \in DOMAIN lastCall.results}

\* the index terms of the file at p
TermsOf(p) == Range(preprocess_text_content(fs[p].text))

\* C1: a sync that repeats a sync, the tree not having changed since the
\* first one started, returns false and leaves the weight matrix, the
\* row-to-path map, the titles and the digest table as they were.
C1_SyncIdempotent ==
    [][ (lastCall'.op = "sync" /\ ~dirty /\ ~dirty')
        => /\ lastCall'.changed = FALSE
           /\ lastCall'.raised = "none"
           /\ engine'.tfidf_matrix = engine.tfidf_matrix
           /\ engine'.idx_to_filepath = engine.idx_to_filepath
           /\ engine'.file_metadata = engine.file_metadata
           /\ engine'.file_hashes = engine.file_hashes ]_vars

C1_Witness ==
    /\ lastCall.op = "sync"
    /\ lastCall.repeat
    /\ ~dirty
    /\ ~lastCall.changed
    /\ engine.tfidf_matrix.present

\* C2: once a sync has walked the tree without a file, no search returns
\* that file's path for as long as the file stays away.
C2_DeletedNeverReturned ==
    lastCall.op = "search" =>
        \A p \in ResultPaths : ~(p \in seenAbsent /\ ~fs[p].exists)

\* C3: a file added since the last walk is returned by no search before the
\* next sync; after the next sync a search for a term that only this file
\* contains returns it with a score above zero.
C3_AddedFound ==
    lastCall.op = "search" =>
        /\ \A p \in ResultPaths : ~(p \in seenAbsent /\ fs[p].exists)
        /\ \A p \in delta.added :
             \A t \in TermsOf(p) :
                ( /\ \A q \in Paths \ {p} : fs[q].exists => t \notin TermsOf(q)
                  /\ lastCall.top_n >= 1
                  /\ Len(lastCall.query) = 1
                  /\ lastCall.query[1] \notin StopWords
                  /\ Lemma(lastCall.query[1]) = t )
                => \E i \in DOMAIN lastCall.results :
                      /\ lastCall.results[i].path = p
                      /\ lastCall.results[i].score > 0

\* C4: after a sync that met an indexed file with changed content, the
\* recorded digest is no longer the old one, a query for a term of the old
\* content only does not return the file, and a query for a term of the new
\* content only returns it.
C4_ModifiedReindexed ==
    \A m \in delta.modified :
        LET old == Range(preprocess_text_content(m.old))
            new == TermsOf(m.path)
        IN  /\ lastCall.op = "sync" =>
                /\ m.path \in DOMAIN engine.file_hashes
                /\ engine.file_hashes[m.path] # Sha256(m.old)
            /\ ( /\ lastCall.op = "search"
                 /\ Len(lastCall.query) = 1
                 /\ lastCall.query[1] \notin StopWords )
               => LET t == Lemma(lastCall.query[1])
                  IN  /\ t \in old \ new => m.path \notin ResultPaths
                      /\ (t \in new \ old /\ lastCall.top_n = 20)
                            => m.path \in ResultPaths

\* C5: a sync on a missing root reports an error and leaves the engine and
\* the cache file as they were.
C5_MissingRootIsError ==
    [][ (lastCall'.op = "sync" /\ ~rootExists)
        => /\ lastCall'.raised # "none"
           /\ engine' = engine
           /\ cache' = cache ]_vars

\* C6: after a sync over a tree that holds a readable matching file with at
\* least one term, a matching file that could not be hashed is not among the
\* indexed paths, and the sync completed without an exception.
C6_UnreadableSkipped ==
    ( /\ lastCall.op = "sync"
      /\ ~dirty
      /\ \E q \in Paths : /\ EndsWithTxt(q)
                          /\ fs[q].exists /\ fs[q].readable
                          /\ TermsOf(q) # {} )
    => \A p \in Paths :
          (EndsWithTxt(p) /\ fs[p].exists /\ ~fs[p].readable)
          => (p \notin IndexedPaths /\ lastCall.raised = "none")

\* the cache file is a pickle with every entry load_from_cache reads
CompleteArtifact(file) ==
    file.kind = "pickle" /\ PickledKeys(file) = Range(StateKeys)

\* C7: when the load at start-up fails (no file, bytes that do not unpickle,
\* a dictionary without an expected entry) the engine is as freshly
\* constructed.
C7_FailedLoadIsFresh ==
    (lastCall.op = "startup" /\ ~CompleteArtifact(cache)) => engine = NewEngine

\* C8: a sync leaves the cache file as it was or as a complete artifact,
\* also when the process dies during the write.
C8_AtomicSave ==
    [][ lastCall'.op = "sync" => (cache' = cache \/ CompleteArtifact(cache')) ]_vars

\* the result lists search can return for a query
ResultLists(eng, query, top_n) ==
    IF eng.tfidf_matrix.present /\ eng.vectorizer.tfidfFitted
    THEN {search(eng, fs, query, top_n, order) :
             order \in argsort(Similarities(eng, query))}
    ELSE {search(eng, fs, query, top_n, << >>)}

C10_ScoresDescend ==
    lastCall.op = "search" =>
        \A i, j \in DOMAIN lastCall.results :
            i < j => lastCall.results[i].score >= lastCall.results[j].score

C10_Witness ==
    /\ lastCall.op = "search"
    /\ Len(lastCall.results) >= 2
    /\ lastCall.results[1].score > lastCall.results[2].score


\* the rows of the index whose path the last search returned
ReturnedRows ==
    {i \in DOMAIN engine.idx_to_filepath :
        engine.idx_to_filepath[i] \in ResultPaths}

\* C11: a search returns at most top_n results, every one of them above the
\* threshold, and they are the top_n best rows among those above the
\* threshold: as many as top_n allows, and no row left out scores higher
\* than a returned one.
C11_ThresholdThenTopN ==
    (lastCall.op = "search" /\ lastCall.raised = "none"
        /\ engine.tfidf_matrix.present /\ engine.vectorizer.tfidfFitted)
    => LET sims  == Similarities(engine, lastCall.query)
           above == {i \in DOMAIN sims : AboveThreshold(sims[i])}
           n     == Len(lastCall.results)
       IN  /\ n <= lastCall.top_n
           /\ ReturnedRows \subseteq above
           /\ Cardinality(ReturnedRows) = n
           /\ n = IF Cardinality(above) < lastCall.top_n
                  THEN Cardinality(above) ELSE lastCall.top_n
           /\ \A i \in ReturnedRows, j \in above \ ReturnedRows :
                 sims[i].score >= sims[j].score

C11_Witness ==
    /\ lastCall.op = "search"
    /\ lastCall.raised = "none"
    /\ lastCall.top_n = 1
    /\ Len(lastCall.results) = 1
    /\ Cardinality({i \in DOMAIN engine.tfidf_matrix.rows :
           AboveThreshold(Similarities(engine, lastCall.query)[i])}) = 2


\* C12: a search on an engine without a weight matrix (never built, or
\* emptied by a sync that found no matching file) returns the empty list and
\* raises nothing.
C12_EmptyIndexSearch ==
    (lastCall.op = "search" /\ ~engine.tfidf_matrix.present)
    => (lastCall.raised = "none" /\ lastCall.results = << >>)

C12_Witness ==
    /\ lastCall.op = "search"
    /\ ~engine.tfidf_matrix.present
    /\ engine.vectorizer.tfidfFitted
    /\ engine.file_hashes = << >>
    /\ saved.valid
    /\ saved.engine = engine
    /\ lastCall.results = << >>


\* C13: the signal queue never holds more than one signal, and a qualifying
\* event handled while a signal is pending leaves the queue as it is.
C13_OnePendingSignal ==
    [][ /\ Len(queue') <= 1
        /\ ( /\ hpc = "idle" /\ inbox # << >> /\ inbox' = Tail(inbox)
             /\ Qualifies(Head(inbox))
             /\ queue # << >> )
           => (queue' = queue /\ hpc' = "idle") ]_vars

C13_Witness ==
    /\ lastEvent = "dropped"
    /\ Len(queue) = 1
    /\ observer = "alive"


\* C14: while the application runs and is not closed, a qualifying event
\* that the handler has handled (signal put, or dropped because one was
\* pending) is eventually followed by the start of a sync.
C14_NoLostWakeup ==
    unserved ~> (~unserved \/ fpc = "closed" \/ ~running)

C14_Witness ==
    /\ lastEvent = "dropped"
    /\ lastCall.op = "sync"
    /\ ~unserved
    /\ fpc = "idle"
    /\ queue = << >>
    /\ fsOps = MaxEvents
    /\ running


\* C15: the observer only moves from new (Idle) to alive (Watching) to
\* stopped (Stopped), and from the call of stop() on it is never alive.
C15_StopIsFinal ==
    [][ /\ observer = "alive" => observer' \in {"alive", "stopped"}
        /\ observer = "stopped" => observer' = "stopped"
        /\ stopCalled' => observer' # "alive" ]_vars


\* C16: run() never ends with an exception on the watcher thread: a failure
\* of observer.schedule or observer.start is caught inside run().
C16_RegistrationFailureCaught ==
    wpc # "raised"


\* the indexed row i has a positive weight for a term of the normalised query
SharesTerm(i, query) ==
    \E t \in DOMAIN engine.tfidf_matrix.rows[i] :
        /\ engine.tfidf_matrix.rows[i][t] > 0
        /\ Count(preprocess_text_content(query), t) > 0

\* a term no document of the model contains
UnseenTerm == "zebra"

SameBuild(eng) ==
    eng.tfidf_matrix.present =>
        /\ eng.vectorizer.tfidfFitted
        /\ \A i \in DOMAIN eng.tfidf_matrix.rows :
              DOMAIN eng.tfidf_matrix.rows[i] = eng.vectorizer.vocabulary
        /\ DOMAIN eng.idx_to_filepath = DOMAIN eng.tfidf_matrix.rows
        /\ DOMAIN eng.file_metadata = Range(eng.idx_to_filepath)

\* C18: a sync that starts from an index whose parts come from one build
\* leaves an index whose parts come from one build, also when its rebuild
\* raised.
C18_IndexSwappedWhole ==
    [][ (lastCall'.op = "sync" /\ running' /\ SameBuild(engine))
        => SameBuild(engine') ]_vars


\* the matrix has as many rows as the row-to-path map has entries, and the
\* mapped paths are the keys of the digest table and of the titles; without
\* a matrix all three are empty
Consistent(eng) ==
    IF eng.tfidf_matrix.present
    THEN /\ Cardinality(DOMAIN eng.tfidf_matrix.rows)
                = Cardinality(DOMAIN eng.idx_to_filepath)
         /\ Range(eng.idx_to_filepath) = DOMAIN eng.file_hashes
         /\ Range(eng.idx_to_filepath) = DOMAIN eng.file_metadata
    ELSE /\ eng.idx_to_filepath = << >>
         /\ eng.file_hashes = << >>
         /\ eng.file_metadata = << >>

\* C19: load_from_cache on a new engine leaves the engine consistent, and a
\* sync or a search that returns keeps a consistent engine consistent.
C19_TablesAgree ==
    [][ /\ lastCall'.op = "startup" => Consistent(engine')
        /\ ( /\ lastCall'.op \in {"sync", "search"}
             /\ lastCall'.raised = "none"
             /\ Consistent(engine) )
           => Consistent(engine') ]_vars


\* what a freshly constructed engine holds after a sync over the tree
FreshBuild(files, root) ==
    sync_index_with_filesystem(NewEngine, files, root, files, FALSE).engine

\* C20: after a sync that detected a change, the weight matrix, the
\* row-to-path map, the titles and the digest table are those a freshly
\* constructed engine gets from the same tree.
C20_RebuildFromScratch ==
    [][ (lastCall'.op = "sync" /\ lastCall'.changed /\ running')
        => LET fresh == FreshBuild(fs', rootExists')
           IN  /\ engine'.tfidf_matrix = fresh.tfidf_matrix
               /\ engine'.idx_to_filepath = fresh.idx_to_filepath
               /\ engine'.file_metadata = fresh.file_metadata
               /\ engine'.file_hashes = fresh.file_hashes ]_vars


\* the recorded paths the walk no longer finds
RemovedPaths(eng, files, root) ==
    (DOMAIN eng.file_hashes) \ current_files(files, root)

\* the walked paths whose digest was computed and differs from the recorded one
ModifiedPaths(eng, files, root) ==
    {p \in current_files(files, root) \cap DOMAIN eng.file_hashes :
        /\ get_file_hash(files, p) # None
        /\ get_file_hash(files, p) # eng.file_hashes[p]}

\* the walked paths without a recorded digest
UnrecordedPaths(eng, files, root) ==
    current_files(files, root) \ DOMAIN eng.file_hashes

\* the walked paths without a recorded digest whose digest was computed
AddedPaths(eng, files, root) ==
    {p \in UnrecordedPaths(eng, files, root) : get_file_hash(files, p) # None}

C22_CacheFollowsSync ==
    [][ (lastCall'.op = "sync" /\ lastCall'.raised = "none")
        => IF lastCall'.changed
           THEN cache' = pickle_dump(engine')
           ELSE cache' = cache ]_vars


\* the events C23 names: a file event of type created, modified, deleted or
\* moved whose source or destination ends with '.txt' (the test of the walk)
SignalWorthy(event) ==
    /\ ~event.is_directory
    /\ event.event_type \in {"created", "modified", "deleted", "moved"}
    /\ (EndsWithTxt(event.src_path) \/ EndsWithTxt(event.dest_path))

\* C23: the handler lets exactly the signal-worthy events through to the
\* queue (or the callback): every other event is ignored and leaves the
\* queue as it was, a signal-worthy one is never ignored, and the put that
\* follows adds one signal.
C23_HandlerFilter ==
    [][ /\ (inbox # << >> /\ inbox' = Tail(inbox))
           => IF SignalWorthy(Head(inbox))
              THEN lastEvent' \notin {"ignored", "ignored3"}
              ELSE /\ lastEvent' \in {"ignored", "ignored3"}
                   /\ queue' = queue
                   /\ hpc' = hpc
        /\ (hpc = "put" /\ hpc' = "idle")
           => queue' = Append(queue, "rescan_needed") ]_vars

\* the same for the handler that puts signals on the queue alone
C23_QueueHandlerFilter ==
    [][ /\ (inbox # << >> /\ inbox' = Tail(inbox) /\ hpc = "idle")
           => IF SignalWorthy(Head(inbox))
              THEN lastEvent' \in {"checked", "dropped"}
              ELSE /\ lastEvent' = "ignored"
                   /\ queue' = queue
                   /\ hpc' = hpc
        /\ (hpc = "put" /\ hpc' = "idle")
           => queue' = Append(queue, "rescan_needed") ]_vars


\* the row of the weight matrix a path is mapped from
RowOf(eng, p) ==
    CHOOSE i \in DOMAIN eng.idx_to_filepath : eng.idx_to_filepath[i] = p

\* C24: among the hits of one result list with equal score, the hit of the
\* lower row comes first.
C24_TiesInRowOrder ==
    (lastCall.op = "search" /\ lastCall.raised = "none")
    => \A i, j \in DOMAIN lastCall.results :
          (/\ i < j
           /\ lastCall.results[i].score = lastCall.results[j].score)
          => RowOf(engine, lastCall.results[i].path)
             < RowOf(engine, lastCall.results[j].path)


\* the positions at which some word of the query occurs as a whole word
Occurrences(text, query_words) ==
    {i \in 0..Len(text) :
        \E k \in DOMAIN query_words : MatchesAt(text, query_words[k], i)}

\* C25: the excerpt is the one around the earliest occurrence of any word of
\* the query, whatever the order of the words; without an occurrence it is
\* the first `length` characters of the text (followed by the ellipsis when
\* the text is longer).
C25_EarliestOccurrence ==
    snippet.called
    => LET at == Occurrences(snippet.text, snippet.query_words)
       IN  IF at = {}
           THEN snippet.result \in
                   { Slice(snippet.text, 0, snippet.length),
                     Slice(snippet.text, 0, snippet.length) \o Ellipsis }
           ELSE snippet.result =
                   Excerpt(snippet.text, Least(at), snippet.length)


\* C26: with p the match position, the excerpt is text[start:end] for
\* start = max(0, p - length/2) and end = min(len(text), p + length/2) (the
\* integer half), preceded by the ellipsis exactly when start > 0 and
\* followed by it exactly when end < len(text); without a match it is the
\* first `length` characters, followed by the ellipsis exactly when the text
\* is longer than `length`.
C26_WindowAndEllipses ==
    snippet.called
    => LET text == snippet.text
           p    == match_pos(text, snippet.query_words)
           half == snippet.length \div 2
           from == IF p - half > 0 THEN p - half ELSE 0
           to   == IF p + half < Len(text) THEN p + half ELSE Len(text)
           body == [k \in 1..(IF to > from THEN to - from ELSE 0) |->
                       text[from + k]]
           head == [k \in 1..(IF snippet.length < Len(text)
                              THEN snippet.length ELSE Len(text)) |-> text[k]]
       IN  IF p = -1
           THEN snippet.result =
                   head \o (IF Len(text) > snippet.length
                            THEN <<".", ".", ".">> ELSE << >>)
           ELSE snippet.result =
                   (IF from > 0 THEN <<".", ".", ".">> ELSE << >>)
                   \o body
                   \o (IF to < Len(text) THEN <<".", ".", ".">> ELSE << >>)

\* an excerpt cut on both sides: ellipsis, two characters around the match,
\* ellipsis
C26_Witness ==
    /\ snippet.called
    /\ match_pos(snippet.text, snippet.query_words) > 0
    /\ snippet.length = 2
    /\ Len(snippet.result) = 8
    /\ SubSeq(snippet.result, 1, 3) = <<".", ".", ".">>
    /\ SubSeq(snippet.result, 6, 8) = <<".", ".", ".">>


\* C27: when a sync raised during its rebuild and left an index behind, the
\* next sync over the same tree reports a change again.
C27_FailedRebuildRetried ==
    [][ (/\ lastCall.op = "sync"
         /\ lastCall.raised \in {"ValueError", "OSError"}
         /\ engine.tfidf_matrix.present
         /\ lastCall'.op = "sync"
         /\ fs' = fs)
        => lastCall'.changed ]_vars


\* C28: a change to a '.txt' file that no sync has walked over yet, made
\* while the application is in its main loop, is eventually followed by the
\* start of a sync (unless the application is closed or dies) -- also when
\* the change was made before the observer was started.
C28_GapChangeIndexed ==
    (dirty /\ fpc = "idle") ~> (~dirty \/ fpc = "closed" \/ ~running)


\* the indexed paths whose file search cannot read
Unreadable(eng, files) ==
    {p \in Range(eng.idx_to_filepath) : ~(files[p].exists /\ files[p].readable)}

\* C29: a search over an index with a path whose file is gone or unreadable
\* raises nothing and leaves the engine as it was; a hit for such a path
\* carries the path, its title, its score and the placeholder snippet.
C29_MissingFileSearch ==
    [][ (lastCall'.op = "search" /\ Unreadable(engine, fs) # {})
        => /\ lastCall'.raised = "none"
           /\ engine' = engine
           /\ \A k \in DOMAIN lastCall'.results :
                 LET hit == lastCall'.results[k]
                 IN  hit.path \in Unreadable(engine, fs)
                     => /\ hit.snippet = Placeholder
                        /\ hit.title = engine.file_metadata[hit.path]
                        /\ AboveThreshold(
                              Similarities(engine, lastCall'.query)[RowOf(engine, hit.path)])
                        /\ hit.score =
                              Similarities(engine, lastCall'.query)[RowOf(engine, hit.path)].score
      ]_vars

\* the same for an engine whose vectorizer is fitted
C29_FittedMissingFileSearch ==
    [][ (/\ lastCall'.op = "search"
         /\ Unreadable(engine, fs) # {}
         /\ engine.vectorizer.tfidfFitted)
        => /\ lastCall'.raised = "none"
           /\ engine' = engine
           /\ \A k \in DOMAIN lastCall'.results :
                 LET hit == lastCall'.results[k]
                 IN  hit.path \in Unreadable(engine, fs)
                     => /\ hit.snippet = Placeholder
                        /\ hit.title = engine.file_metadata[hit.path]
                        /\ hit.score =
                              Similarities(engine, lastCall'.query)[RowOf(engine, hit.path)].score
      ]_vars

\* a hit with the placeholder snippet was returned
C29_PlaceholderReturned ==
    /\ lastCall.op = "search"
    /\ \E k \in DOMAIN lastCall.results :
          lastCall.results[k].snippet = Placeholder


\* C30: a call of get_summary or create_summaries whose LLM call failed
\* leaves the cache dictionary and the cache file of its summarizer as
\* they were.
C30_FailureNotCached ==
    [][ (summaries'.last.generated /\ summaries'.last.llm = "fail")
        => /\ summaries'.manager_cache = summaries.manager_cache
           /\ summaries'.manager_file = summaries.manager_file
           /\ summaries'.summarizer_cache = summaries.summarizer_cache
           /\ summaries'.summarizer_file = summaries.summarizer_file ]_vars

\* the same for SummarizationManager alone; and its cache never holds the
\* message of a failed call
C30_ManagerFailureNotCached ==
    [][ /\ (/\ summaries'.last.op = "get_summary"
            /\ summaries'.last.generated
            /\ summaries'.last.llm = "fail")
           => /\ summaries'.manager_cache = summaries.manager_cache
              /\ summaries'.manager_file = summaries.manager_file
        /\ \A p \in DOMAIN summaries'.manager_cache :
              summaries'.manager_cache[p].summary # ManagerErrorMsg ]_vars

=============================================================================
